---------------------------- MODULE Spec2Model ----------------------------
(***************************************************************************)
(* Model of mock_flight-hotel_api/main.py: the two CSV loaders that run    *)
(* once at import time, and the search / introspection handlers that read  *)
(* the loaded collections afterwards.                                      *)
(*                                                                         *)
(* Text is modelled as a sequence of one-character strings, so that        *)
(* strip(), lower(), upper(), replace() and slicing are computed rather    *)
(* than assumed.  A missing CSV cell (pandas NaN) is the one-element       *)
(* sequence NaN, whose element is not a character.  A Python float is a    *)
(* record [nan, val]; the model's numbers are small naturals, so val is    *)
(* exact.                                                                  *)
(*                                                                         *)
(* pandas semantics assumed (1.x / 2.x): read_csv turns an empty field     *)
(* into NaN and keeps a whitespace-only field as text; a column whose      *)
(* non-missing cells all parse as numbers (or that has no text cell at     *)
(* all) gets a numeric dtype, on which the .str accessor raises            *)
(* AttributeError; to_numeric raises ValueError on unparseable text and    *)
(* maps the empty string to NaN.  The cell alphabets below contain no      *)
(* sign, decimal point or exponent, so "numeric text" is "all digits".     *)
(***************************************************************************)
EXTENDS Integers, Sequences, FiniteSets, TLC

VARIABLES
    pc,            \* "load_hotels" -> "load_flights" -> "serving"
    hotels_csv,    \* the file hotels.csv as found at start-up
    flights_csv,   \* the file flights.csv as found at start-up
    hotels_data,   \* module global, main.py:82
    flights_data,  \* module global, main.py:83
    errors,        \* sources whose loader printed "Error loading ... data"
    responses,     \* every (endpoint, request, response) served so far
    served         \* how many requests have been handled

vars == <<pc, hotels_csv, flights_csv, hotels_data, flights_data, errors, responses, served>>

---------------------------------------------------------------------------
(* Bounds of the model *)

\* longest table (in rows) drawn for the enumerated start-up files
MaxRows == 3
\* rows of the one long "grouped" hotel table (one destination, then blanks)
GroupedRows == 101
\* largest traveller count a flight request carries
MaxTravelers == 2
\* requests the model serves before it stops
MaxServed == 2

---------------------------------------------------------------------------
(* Text helpers: Python str methods *)

NaN == <<"NaN">>

isna(c) == c = NaN

notna(c) == c # NaN

LowerMap == [G |-> "g", O |-> "o", A |-> "a", P |-> "p", U |-> "u", N |-> "n", E |-> "e",
             B |-> "b", D |-> "d", H |-> "h", F |-> "f", L |-> "l", T |-> "t", X |-> "x"]

UpperMap == [g |-> "G", o |-> "O", a |-> "A", p |-> "P", u |-> "U", n |-> "N", e |-> "E",
             b |-> "B", d |-> "D", h |-> "H", f |-> "F", l |-> "L", t |-> "T", x |-> "X"]

LowerChar(c) == IF c \in DOMAIN LowerMap THEN LowerMap[c] ELSE c

UpperChar(c) == IF c \in DOMAIN UpperMap THEN UpperMap[c] ELSE c

\* str.lower()
lower(s) == IF s = <<>> THEN <<>> ELSE [i \in 1..Len(s) |-> LowerChar(s[i])]

\* str.upper()
upper(s) == IF s = <<>> THEN <<>> ELSE [i \in 1..Len(s) |-> UpperChar(s[i])]

RECURSIVE lstrip(_)
lstrip(s) == IF s # <<>> /\ Head(s) = " " THEN lstrip(Tail(s)) ELSE s

RECURSIVE rstrip(_)
rstrip(s) == IF s # <<>> /\ s[Len(s)] = " " THEN rstrip(SubSeq(s, 1, Len(s) - 1)) ELSE s

\* str.strip()
strip(s) == rstrip(lstrip(s))

\* str.replace(old, '') for a one-character old
replace(s, old) == SelectSeq(s, LAMBDA c : c # old)

\* s[:n]
Prefix(s, n) == SubSeq(s, 1, IF Len(s) < n THEN Len(s) ELSE n)

Digits == <<"0", "1", "2", "3", "4", "5", "6", "7", "8", "9">>

IsDigit(c) == \E d \in 1..10 : Digits[d] = c

DigitVal(c) == (CHOOSE d \in 1..10 : Digits[d] = c) - 1

AllDigits(s) == s # <<>> /\ \A i \in 1..Len(s) : IsDigit(s[i])

RECURSIVE NumVal(_)
NumVal(s) == IF s = <<>> THEN 0 ELSE 10 * NumVal(SubSeq(s, 1, Len(s) - 1)) + DigitVal(s[Len(s)])

RECURSIVE Dec(_)
Dec(n) == IF n < 10 THEN <<Digits[n + 1]>> ELSE Dec(n \div 10) \o <<Digits[(n % 10) + 1]>>

\* format spec 02d: decimal, zero-filled to a minimum width of 2
Format02d(n) == IF n < 10 THEN <<"0">> \o Dec(n) ELSE Dec(n)

(* Python floats *)
Float(v) == [nan |-> FALSE, val |-> v]

FloatNaN == [nan |-> TRUE, val |-> 0]

\* float * int
Mul(f, n) == IF f.nan THEN FloatNaN ELSE Float(f.val * n)

---------------------------------------------------------------------------
(* pandas: a DataFrame is [columns, dtypes, rows]; a row is a tuple of     *)
(* cells in column order.  A step of a loader's try-block either gives a   *)
(* value or raises; Raise stands for any Python Exception.                 *)

Raise == [raised |-> TRUE, value |-> <<>>]

Return(v) == [raised |-> FALSE, value |-> v]

\* the dtype read_csv infers for column i from the cells it parsed
InferDtype(rows, i) ==
    IF rows = <<>> \/ \E k \in 1..Len(rows) : notna(rows[k][i]) /\ ~AllDigits(rows[k][i])
    THEN "object"
    ELSE "numeric"

\* pd.read_csv(path): raises when the file is absent or cannot be parsed
read_csv(file) ==
    IF ~file.readable
    THEN Raise
    ELSE Return([columns |-> file.columns,
                 dtypes  |-> [i \in 1..Len(file.columns) |-> InferDtype(file.rows, i)],
                 rows    |-> file.rows])

\* df.columns = df.columns.str.strip()
StripColumns(df) ==
    [df EXCEPT !.columns = [i \in 1..Len(df.columns) |-> strip(df.columns[i])]]

HasCol(df, name) == \E i \in 1..Len(df.columns) : df.columns[i] = name

\* position of df[name]; a KeyError when ~HasCol(df, name)
Col(df, name) == CHOOSE i \in 1..Len(df.columns) : df.columns[i] = name

\* the last non-NaN cell of column i at or above row k, NaN when there is none
LastValid(rows, i, k) ==
    LET valid == {j \in 1..k : notna(rows[j][i])}
    IN  IF valid = {} THEN NaN ELSE rows[CHOOSE j \in valid : \A h \in valid : h <= j][i]

\* df[c] = df[c].fillna(method='ffill'): a NaN cell takes the last non-NaN cell above it
ffill(df, i) ==
    [df EXCEPT !.rows = [k \in 1..Len(df.rows) |->
                            [df.rows[k] EXCEPT ![i] = LastValid(df.rows, i, k)]]]

\* df.dropna(subset=[c])
dropna(df, i) == [df EXCEPT !.rows = SelectSeq(df.rows, LAMBDA r : notna(r[i]))]

\* df[df[c].str.strip() != '']
DropBlank(df, i) == [df EXCEPT !.rows = SelectSeq(df.rows, LAMBDA r : strip(r[i]) # <<>>)]

QuoteChar == "\""

\* .str.replace(',', '').str.replace('"', '') on one cell; the .str methods pass NaN through
CleanNumberCell(c) == IF isna(c) THEN NaN ELSE replace(replace(c, ","), QuoteChar)

CleanNumbers(df, i) ==
    [df EXCEPT !.rows = [k \in 1..Len(df.rows) |->
                            [df.rows[k] EXCEPT ![i] = CleanNumberCell(df.rows[k][i])]]]

\* pd.to_numeric accepts a cell: NaN and '' become NaN, digits become a number
Parseable(c) == isna(c) \/ c = <<>> \/ AllDigits(c)

\* float(...) of the cell pd.to_numeric produced
ParsedNumber(c) == IF isna(c) \/ c = <<>> THEN FloatNaN ELSE Float(NumVal(c))

ColDestination == <<"Destination">>

ColHotelName == <<"Hotel Name">>

ColRate == <<"Rate Per Night (INR)">>

\* main.py:34-41, the loop over the retained rows
HotelRecords(df) ==
    LET d == Col(df, ColDestination)
        n == Col(df, ColHotelName)
        r == Col(df, ColRate)
        kept == SelectSeq(df.rows, LAMBDA row : notna(row[d]) /\ notna(row[n]))
    IN  [k \in 1..Len(kept) |->
            [destination  |-> lower(strip(kept[k][d])),
             hotelName    |-> strip(kept[k][n]),
             ratePerNight |-> ParsedNumber(kept[k][r])]]

\* main.py:14-47, the try-block of load_hotels_data
HotelsTry(file) ==
    LET rd == read_csv(file) IN
    IF rd.raised THEN Raise ELSE
    LET df0 == StripColumns(rd.value) IN
    IF ~HasCol(df0, ColDestination) THEN Raise ELSE
    LET df1 == ffill(df0, Col(df0, ColDestination)) IN
    IF ~HasCol(df1, ColHotelName) THEN Raise ELSE
    LET n   == Col(df1, ColHotelName)
        df2 == dropna(df1, n)
    IN
    \* .str on a column that holds no text
    IF df2.dtypes[n] # "object" THEN Raise ELSE
    LET df3 == DropBlank(df2, n) IN
    IF ~HasCol(df3, ColRate) THEN Raise ELSE
    LET r == Col(df3, ColRate) IN
    IF df3.dtypes[r] # "object" THEN Raise ELSE
    LET df4 == CleanNumbers(df3, r) IN
    \* pd.to_numeric: one unparseable cell among the retained rows raises
    IF \E k \in 1..Len(df4.rows) : ~Parseable(df4.rows[k][r]) THEN Raise ELSE
    \* row['Destination'].strip() on a number
    IF df4.dtypes[Col(df4, ColDestination)] # "object"
       /\ \E k \in 1..Len(df4.rows) : notna(df4.rows[k][Col(df4, ColDestination)])
    THEN Raise
    ELSE Return(HotelRecords(df4))

\* mutant of load_hotels_data: on a failure the rows that do parse are kept
load_hotels_data_keeps_parsed(file) ==
    IF ~HotelsTry(file).raised THEN HotelsTry(file).value
    ELSE IF ~file.readable THEN <<>>
    ELSE LET df0 == StripColumns(read_csv(file).value) IN
         IF ~(HasCol(df0, ColDestination) /\ HasCol(df0, ColHotelName) /\ HasCol(df0, ColRate))
         THEN <<>>
         ELSE LET n   == Col(df0, ColHotelName)
                  r   == Col(df0, ColRate)
                  df1 == CleanNumbers(DropBlank(dropna(ffill(df0, Col(df0, ColDestination)), n), n), r)
              IN  HotelRecords([df1 EXCEPT !.rows = SelectSeq(df1.rows, LAMBDA row : Parseable(row[r]))])

\* main.py:11-50: except Exception -> print the error, return []
load_hotels_data(file) == IF HotelsTry(file).raised THEN <<>> ELSE HotelsTry(file).value

ColFlightName == <<"Flight Name">>

ColFare == <<"Fare (INR)">>

ColDepartureCity == <<"Departure City">>

ColArrivalCity == <<"Arrival City">>

ColDepartureTime == <<"Departure Time">>

ColFlightNumber == <<"Flight Number">>

FlightColumns ==
    {ColFlightName, ColFare, ColDepartureCity, ColArrivalCity, ColDepartureTime, ColFlightNumber}

\* str(cell): a missing cell prints as 'nan'
str(c) == IF isna(c) THEN <<"n", "a", "n">> ELSE c

\* main.py:65-74, the loop over all rows
FlightRecords(df) ==
    [k \in 1..Len(df.rows) |->
        [flightName    |-> strip(str(df.rows[k][Col(df, ColFlightName)])),
         fare          |-> ParsedNumber(df.rows[k][Col(df, ColFare)]),
         departureCity |-> lower(strip(str(df.rows[k][Col(df, ColDepartureCity)]))),
         arrivalCity   |-> lower(strip(str(df.rows[k][Col(df, ColArrivalCity)]))),
         departureTime |-> strip(str(df.rows[k][Col(df, ColDepartureTime)])),
         flightNumber  |-> strip(str(df.rows[k][Col(df, ColFlightNumber)]))]]

\* main.py:55-76, the try-block of load_flights_data
FlightsTry(file) ==
    LET rd == read_csv(file) IN
    IF rd.raised THEN Raise ELSE
    LET df0 == StripColumns(rd.value) IN
    IF ~HasCol(df0, ColFare) THEN Raise ELSE
    LET f == Col(df0, ColFare) IN
    IF df0.dtypes[f] # "object" THEN Raise ELSE
    LET df1 == CleanNumbers(df0, f) IN
    IF \E k \in 1..Len(df1.rows) : ~Parseable(df1.rows[k][f]) THEN Raise ELSE
    \* row[c] of a column the table lacks (only reached when there is a row)
    IF df1.rows # <<>> /\ \E c \in FlightColumns : ~HasCol(df1, c) THEN Raise
    ELSE Return(FlightRecords(df1))

\* main.py:52-79: except Exception -> print the error, return []
load_flights_data(file) == IF FlightsTry(file).raised THEN <<>> ELSE FlightsTry(file).value

---------------------------------------------------------------------------
(* The query handlers *)

FL == <<"F", "L">>

HT == <<"H", "T">>

To == <<" ", "t", "o", " ">>

\* main.py:141-145
origin_to_destination(data, req) ==
    SelectSeq(data, LAMBDA flight : /\ flight.departureCity = lower(req.origin)
                                    /\ flight.arrivalCity = lower(req.destination))

\* main.py:148-152
destination_to_origin(data, req) ==
    SelectSeq(data, LAMBDA flight : /\ flight.departureCity = lower(req.destination)
                                    /\ flight.arrivalCity = lower(req.origin))

\* main.py:158-171, one FlightSearch of the outbound loop
OutboundResult(flight, req) ==
    [searchId      |-> FL \o flight.flightNumber \o replace(req.departureDate, "-"),
     departureDate |-> req.departureDate,
     returnDate    |-> req.returnDate,
     travelers     |-> req.travelers,
     destination   |-> req.destination,
     origin        |-> req.origin,
     flightName    |-> flight.flightName,
     price         |-> Mul(flight.fare, req.travelers),
     departureTime |-> flight.departureTime,
     flightNumber  |-> flight.flightNumber,
     route         |-> req.origin \o To \o req.destination]

\* mutant of ReturnResult: the echoed origin and destination are not swapped
ReturnResultUnswapped(flight, req) ==
    [OutboundResult(flight, req) EXCEPT
        !.searchId = FL \o flight.flightNumber \o replace(req.returnDate, "-"),
        !.route = req.destination \o To \o req.origin]

\* main.py:175-188, one FlightSearch of the return loop
ReturnResult(flight, req) ==
    [searchId      |-> FL \o flight.flightNumber \o replace(req.returnDate, "-"),
     departureDate |-> req.departureDate,
     returnDate    |-> req.returnDate,
     travelers     |-> req.travelers,
     destination   |-> req.origin,
     origin        |-> req.destination,
     flightName    |-> flight.flightName,
     price         |-> Mul(flight.fare, req.travelers),
     departureTime |-> flight.departureTime,
     flightNumber  |-> flight.flightNumber,
     route         |-> req.destination \o To \o req.origin]

\* main.py:157-171
OutboundResults(data, req) ==
    LET matches == origin_to_destination(data, req)
    IN  IF matches = <<>> THEN <<>>
        ELSE [k \in 1..Len(matches) |-> OutboundResult(matches[k], req)]

\* main.py:174-188
ReturnResults(data, req) ==
    LET matches == destination_to_origin(data, req)
    IN  IF matches = <<>> THEN <<>>
        ELSE [k \in 1..Len(matches) |-> ReturnResult(matches[k], req)]

\* mutant of FlightResults: the return leg is listed before the outbound leg
FlightResultsReturnFirst(data, req) == ReturnResults(data, req) \o OutboundResults(data, req)

\* main.py:154-188, search_results after both loops
FlightResults(data, req) == OutboundResults(data, req) \o ReturnResults(data, req)

\* mutant of FlightStatus: the empty list is not told apart
FlightStatusAlwaysSuccess(results) == "success"

\* main.py:190-199
FlightStatus(results) == IF results = <<>> THEN "no_flights_found" ELSE "success"

\* main.py:132-199
search_flight(data, req) ==
    [status  |-> FlightStatus(FlightResults(data, req)),
     results |-> FlightResults(data, req)]

\* main.py:213-216
destination_hotels(data, req) ==
    SelectSeq(data, LAMBDA hotel : hotel.destination = lower(req.destination))

\* mutant of HotelSearchId: the 0-based index is formatted as it is
HotelSearchIdZeroBased(req, index) ==
    HT \o Prefix(upper(req.destination), 3) \o replace(req.checkIn, "-") \o Format02d(index)

\* main.py:223, index is enumerate()'s 0-based position
HotelSearchId(req, index) ==
    HT \o Prefix(upper(req.destination), 3) \o replace(req.checkIn, "-") \o Format02d(index + 1)

\* main.py:220-229
HotelResults(data, req) ==
    LET matches == destination_hotels(data, req)
    IN  IF matches = <<>> THEN <<>>
        ELSE [k \in 1..Len(matches) |->
                [searchId     |-> HotelSearchId(req, k - 1),
                 checkIn      |-> req.checkIn,
                 checkOut     |-> req.checkOut,
                 destination  |-> req.destination,
                 hotelName    |-> matches[k].hotelName,
                 ratePerNight |-> matches[k].ratePerNight]]

\* main.py:231-240
HotelStatus(results) == IF results = <<>> THEN "no_hotels_found" ELSE "success"

\* main.py:201-240
search_hotel(data, req) ==
    [status  |-> HotelStatus(HotelResults(data, req)),
     results |-> HotelResults(data, req)]

\* main.py:242-252
debug_data(hotels, flights) ==
    [sample_hotels  |-> Prefix(hotels, 3),
     sample_flights |-> Prefix(flights, 3),
     hotels_count   |-> Len(hotels),
     flights_count  |-> Len(flights),
     available_destinations  |-> {hotels[k].destination : k \in 1..Len(hotels)},
     available_flight_routes |->
        {flights[k].departureCity \o To \o flights[k].arrivalCity : k \in 1..Len(flights)}]

---------------------------------------------------------------------------
(* Start-up files and requests the model draws from *)

Goa == <<"G", "o", "a">>

Pune == <<"P", "u", "n", "e">>

File(columns, rows) == [readable |-> TRUE, columns |-> columns, rows |-> rows]

\* a file that is absent, or that read_csv cannot parse
Unreadable == [readable |-> FALSE, columns |-> <<>>, rows |-> <<>>]

RowSeqs(S, n) == UNION {[1..k -> S] : k \in 0..n}

HotelHeader == <<ColDestination, ColHotelName, ColRate>>

\* the same header with whitespace around the names
HotelHeaderPadded == <<<<" ", "Destination">>, <<"Hotel Name", " ">>, <<" ", "Rate Per Night (INR)", " ">>>>

\* a header that lacks the rate column
HotelHeaderNoRate == <<ColDestination, ColHotelName, <<"Rate">>>>

\* cells: Destination, Hotel Name, Rate Per Night (INR)
HotelRows ==
    { <<Goa, <<"A">>, <<"1", ",", "2">>>>,             \* a well-formed row
      <<NaN, <<"B", " ">>, <<"7">>>>,                  \* Destination left empty (grouped layout)
      <<<<" ">>, <<"C">>, <<QuoteChar, "3", QuoteChar>>>>,  \* Destination of whitespace only
      <<Pune, <<" ">>, <<"x">>>>,                      \* Hotel Name blank, rate not a number
      <<<<"p", "u", "n", "e", " ">>, <<"E">>, <<"x">>>>,    \* named hotel, rate not a number
      <<<<"P", "U", "N", "E">>, NaN, NaN>> }           \* Hotel Name and rate missing

DefaultHotelRows == << <<Goa, <<"A">>, <<"1", ",", "2">>>>, <<NaN, <<"B", " ">>, <<"7">>>> >>

\* one destination on the first row, the rows below leave it empty
GroupedHotelRows ==
    [k \in 1..GroupedRows |-> <<IF k = 1 THEN Goa ELSE NaN, <<"A">>, <<"1", ",", "2">>>>]

HotelFiles ==
    {Unreadable}
        \cup {File(HotelHeader, rows) : rows \in RowSeqs(HotelRows, MaxRows)}
        \cup {File(HotelHeaderPadded, DefaultHotelRows), File(HotelHeaderNoRate, DefaultHotelRows),
              File(HotelHeader, GroupedHotelRows)}

FlightHeader ==
    <<ColFlightName, ColFare, ColDepartureCity, ColArrivalCity, ColDepartureTime, ColFlightNumber>>

FlightHeaderPadded ==
    <<ColFlightName, <<" ", "Fare (INR)">>, <<"Departure City", " ">>, ColArrivalCity,
      ColDepartureTime, ColFlightNumber>>

\* a header that lacks the flight number column
FlightHeaderNoNumber ==
    <<ColFlightName, ColFare, ColDepartureCity, ColArrivalCity, ColDepartureTime, <<"Number">>>>

\* cells: Flight Name, Fare (INR), Departure City, Arrival City, Departure Time, Flight Number
FlightRows ==
    { <<<<"X">>, <<"1", ",", "2">>, Goa, Pune, <<"T">>, <<"F", "1">>>>,
      <<<<"Y">>, <<QuoteChar, "3", QuoteChar>>, <<"p", "u", "n", "e", " ">>, <<"G", "O", "A">>,
        <<"T">>, <<"F", "2">>>>,
      <<<<"Z">>, <<"5">>, Goa, Goa, <<"T">>, <<"F", "3">>>>,       \* same city both ends
      <<<<"X">>, <<"x">>, Goa, Pune, <<"T">>, <<"F", "4">>>>,      \* fare not a number
      <<NaN, NaN, <<" ">>, NaN, NaN, NaN>> }   \* fields missing, a city of whitespace only

DefaultFlightRows ==
    << <<<<"X">>, <<"1", ",", "2">>, Goa, Pune, <<"T">>, <<"F", "1">>>>,
       <<<<"Y">>, <<QuoteChar, "3", QuoteChar>>, <<"p", "u", "n", "e", " ">>, <<"G", "O", "A">>,
         <<"T">>, <<"F", "2">>>> >>

FlightFiles ==
    {Unreadable}
        \cup {File(FlightHeader, rows) : rows \in RowSeqs(FlightRows, MaxRows)}
        \cup {File(FlightHeaderPadded, DefaultFlightRows),
              File(FlightHeaderNoNumber, DefaultFlightRows)}

\* what the process may find on disk at start-up
StartupFiles ==
    {<<h, File(FlightHeader, DefaultFlightRows)>> : h \in HotelFiles}
        \cup {<<File(HotelHeader, DefaultHotelRows), f>> : f \in FlightFiles}
        \cup {<<Unreadable, Unreadable>>}

FlightRequest(origin, destination, travelers) ==
    [departureDate |-> <<"1", "-", "2">>,
     returnDate    |-> <<"3", "-", "4", "-">>,
     travelers     |-> travelers,
     destination   |-> destination,
     origin        |-> origin]

FlightRequests ==
    {FlightRequest(Goa, <<"P", "U", "N", "E">>, t) : t \in 1..MaxTravelers}
        \cup {FlightRequest(<<"g", "o", "a">>, <<"G", "O", "A">>, 1),
              FlightRequest(<<>>, <<"N", "a", "n">>, 1)}

HotelRequests ==
    {[checkIn |-> <<"1", "-", "2", "-", "3">>, checkOut |-> <<"4">>, destination |-> Goa],
     [checkIn |-> <<"4", "5">>, checkOut |-> <<"6">>, destination |-> <<"p", "U", "n", "e">>],
     [checkIn |-> <<"-", "7">>, checkOut |-> <<"8">>, destination |-> <<>>]}

---------------------------------------------------------------------------
(* The state machine *)

Init ==
    /\ pc = "load_hotels"
    /\ \E files \in StartupFiles : hotels_csv = files[1] /\ flights_csv = files[2]
    /\ hotels_data = <<>>
    /\ flights_data = <<>>
    /\ errors = {}
    /\ responses = {}
    /\ served = 0

\* main.py:82
LoadHotels ==
    /\ pc = "load_hotels"
    /\ hotels_data' = load_hotels_data(hotels_csv)
    /\ errors' = IF HotelsTry(hotels_csv).raised THEN errors \cup {"hotels"} ELSE errors
    /\ pc' = "load_flights"
    /\ UNCHANGED <<hotels_csv, flights_csv, flights_data, responses, served>>

\* main.py:83
LoadFlights ==
    /\ pc = "load_flights"
    /\ flights_data' = load_flights_data(flights_csv)
    /\ errors' = IF FlightsTry(flights_csv).raised THEN errors \cup {"flights"} ELSE errors
    /\ pc' = "serving"
    /\ UNCHANGED <<hotels_csv, flights_csv, hotels_data, responses, served>>

Served(endpoint, req, resp) == [endpoint |-> endpoint, request |-> req, response |-> resp]

\* POST /searchflight
SearchFlight(req) ==
    /\ pc = "serving"
    /\ served < MaxServed
    /\ served' = served + 1
    /\ responses' = responses \cup {Served("searchflight", req, search_flight(flights_data, req))}
    /\ UNCHANGED <<pc, hotels_csv, flights_csv, hotels_data, flights_data, errors>>

\* mutant of SearchHotel: the hotels handed out are removed from hotels_data
SearchHotelConsuming(req) ==
    /\ pc = "serving"
    /\ served < MaxServed
    /\ served' = served + 1
    /\ responses' = responses \cup {Served("searchhotel", req, search_hotel(hotels_data, req))}
    /\ hotels_data' = SelectSeq(hotels_data, LAMBDA hotel : hotel.destination # lower(req.destination))
    /\ UNCHANGED <<pc, hotels_csv, flights_csv, flights_data, errors>>

\* POST /searchhotel
SearchHotel(req) ==
    /\ pc = "serving"
    /\ served < MaxServed
    /\ served' = served + 1
    /\ responses' = responses \cup {Served("searchhotel", req, search_hotel(hotels_data, req))}
    /\ UNCHANGED <<pc, hotels_csv, flights_csv, hotels_data, flights_data, errors>>

\* GET /debug; root() and health_check() read only the two lengths that debug_data reports
DebugData ==
    /\ pc = "serving"
    /\ served < MaxServed
    /\ served' = served + 1
    /\ responses' = responses \cup {Served("debug", <<>>, debug_data(hotels_data, flights_data))}
    /\ UNCHANGED <<pc, hotels_csv, flights_csv, hotels_data, flights_data, errors>>

Next ==
    \/ LoadHotels
    \/ LoadFlights
    \/ \E req \in FlightRequests : SearchFlight(req)
    \/ \E req \in HotelRequests : SearchHotel(req)
    \/ DebugData

Spec == Init /\ [][Next]_vars

---------------------------------------------------------------------------
(* Vocabulary of the properties *)

FlightServed == {e \in responses : e.endpoint = "searchflight"}

HotelServed == {e \in responses : e.endpoint = "searchhotel"}

\* the k-th smallest member of a set of positions
Nth(S, k) == CHOOSE i \in S : Cardinality({j \in S : j < i}) = k - 1

RECURSIVE NoDashes(_)
NoDashes(s) ==
    IF s = <<>> THEN <<>>
    ELSE IF Head(s) = "-" THEN NoDashes(Tail(s)) ELSE <<Head(s)>> \o NoDashes(Tail(s))

\* positions of the records of Pass A (outbound) for a request
PassA(req) ==
    {i \in 1..Len(flights_data) : /\ flights_data[i].departureCity = lower(req.origin)
                                  /\ flights_data[i].arrivalCity = lower(req.destination)}

\* positions of the records of Pass B (return) for a request
PassB(req) ==
    {i \in 1..Len(flights_data) : /\ flights_data[i].departureCity = lower(req.destination)
                                  /\ flights_data[i].arrivalCity = lower(req.origin)}

IsResultOf(result, flight) ==
    /\ result.flightNumber = flight.flightNumber
    /\ result.flightName = flight.flightName
    /\ result.departureTime = flight.departureTime

\* positions of the hotel records a request matches
HotelMatches(req) ==
    {i \in 1..Len(hotels_data) : hotels_data[i].destination = lower(req.destination)}

\* i in decimal, zero-padded to two digits
TwoDigits(i) == IF Len(Dec(i)) < 2 THEN <<"0">> \o Dec(i) ELSE Dec(i)

---------------------------------------------------------------------------
C2_LegFields ==
    \A e \in FlightServed :
        LET req == e.request
            res == e.response.results
            a   == Cardinality(PassA(req))
            b   == Cardinality(PassB(req))
        IN  /\ Len(res) = a + b
            /\ \A k \in 1..a :
                  /\ res[k].origin = req.origin
                  /\ res[k].destination = req.destination
                  /\ res[k].searchId =
                        <<"F", "L">> \o flights_data[Nth(PassA(req), k)].flightNumber
                            \o NoDashes(req.departureDate)
            /\ \A k \in 1..b :
                  LET flight == flights_data[Nth(PassB(req), k)]
                      r      == res[a + k]
                  IN  /\ r.origin = req.destination
                      /\ r.destination = req.origin
                      /\ r.searchId = <<"F", "L">> \o flight.flightNumber \o NoDashes(req.returnDate)
                      /\ r.route = req.destination \o <<" ", "t", "o", " ">> \o req.origin
                      /\ r.price.nan = flight.fare.nan
                      /\ ~flight.fare.nan => r.price.val = flight.fare.val * req.travelers

\* a return-leg result for two travellers between two different cities
C2_Witness ==
    \E e \in FlightServed :
        /\ PassB(e.request) # {}
        /\ e.request.origin # e.request.destination
        /\ e.request.travelers = 2
        /\ ~flights_data[Nth(PassB(e.request), 1)].fare.nan
        /\ Len(e.response.results) = Cardinality(PassA(e.request)) + Cardinality(PassB(e.request))

(* C3: a hotel response lists one result per record whose destination is   *)
(* the lowercased requested one, in source order; the i-th carries         *)
(* searchId "HT" + first three characters of the uppercased destination +  *)
(* checkIn without dashes + i padded to two digits, and the searchIds of   *)
(* one response are pairwise distinct.                                     *)
C3_HotelIds ==
    \A e \in HotelServed :
        LET req == e.request
            res == e.response.results
            m   == Cardinality(HotelMatches(req))
            up  == upper(req.destination)
        IN  /\ Len(res) = m
            /\ \A i \in 1..m :
                  /\ res[i].hotelName = hotels_data[Nth(HotelMatches(req), i)].hotelName
                  /\ res[i].ratePerNight = hotels_data[Nth(HotelMatches(req), i)].ratePerNight
                  /\ res[i].searchId =
                        <<"H", "T">> \o SubSeq(up, 1, IF Len(up) < 3 THEN Len(up) ELSE 3)
                            \o NoDashes(req.checkIn) \o TwoDigits(i)
            /\ \A i, j \in 1..m : i # j => res[i].searchId # res[j].searchId

\* a response with a hundred matches or more: one-, two- and three-digit positions
C3_Witness ==
    \E e \in HotelServed :
        /\ Len(e.response.results) >= 100
        /\ Len(e.response.results) = Cardinality(HotelMatches(e.request))

C8_FailedSourceIsEmpty ==
    /\ pc # "load_hotels" /\ HotelsTry(hotels_csv).raised =>
          /\ hotels_data = <<>>
          /\ "hotels" \in errors
          /\ \A e \in HotelServed :
                e.response.results = <<>> /\ e.response.status = "no_hotels_found"
          /\ pc = "serving" /\ ~FlightsTry(flights_csv).raised =>
                flights_data = FlightsTry(flights_csv).value /\ "flights" \notin errors
    /\ pc = "serving" /\ FlightsTry(flights_csv).raised =>
          /\ flights_data = <<>>
          /\ "flights" \in errors
          /\ \A e \in FlightServed :
                e.response.results = <<>> /\ e.response.status = "no_flights_found"
          /\ ~HotelsTry(hotels_csv).raised =>
                hotels_data = HotelsTry(hotels_csv).value /\ "hotels" \notin errors

\* a readable hotel table whose load failed, the flights loaded, a hotel search answered
C8_Witness ==
    /\ pc = "serving"
    /\ hotels_csv.readable
    /\ HotelsTry(hotels_csv).raised
    /\ flights_data # <<>>
    /\ \E e \in HotelServed : e.response.status = "no_hotels_found"

---------------------------------------------------------------------------
(* Vocabulary of the loader properties: the source tables as written *)

\* position of a named column in a file's header, whitespace around names ignored
FileCol(file, name) == CHOOSE i \in 1..Len(file.columns) : strip(file.columns[i]) = name

FileHasCols(file, names) ==
    /\ file.readable
    /\ \A name \in names : \E i \in 1..Len(file.columns) : strip(file.columns[i]) = name

HotelTableOk == FileHasCols(hotels_csv, {ColDestination, ColHotelName, ColRate})

FlightTableOk == FileHasCols(flights_csv, FlightColumns)

HotelCell(k, name) == hotels_csv.rows[k][FileCol(hotels_csv, name)]

FlightCell(k, name) == flights_csv.rows[k][FileCol(flights_csv, name)]

\* a cell that is missing, empty or whitespace only
Blank(c) == isna(c) \/ strip(c) = <<>>

\* a rate or fare that is written but is no number once commas and quotes are removed
Unparseable(c) == notna(c) /\ ~AllDigits(SelectSeq(c, LAMBDA x : x \notin {",", QuoteChar}))

\* the Destination of the nearest row at or above k that has a non-blank one (NaN if none)
CarriedDestination(k) ==
    LET above == {j \in 1..k : ~Blank(HotelCell(j, ColDestination))}
    IN  IF above = {} THEN NaN
        ELSE HotelCell(CHOOSE j \in above : \A i \in above : i <= j, ColDestination)

\* rows that keep a hotel name after trimming
NamedHotelRows == {k \in 1..Len(hotels_csv.rows) : ~Blank(HotelCell(k, ColHotelName))}

WellFormedHotelRows ==
    {k \in NamedHotelRows : /\ notna(HotelCell(k, ColRate))
                            /\ ~Unparseable(HotelCell(k, ColRate))
                            /\ notna(CarriedDestination(k))}

RequiredFlightColumns == {ColDepartureCity, ColArrivalCity, ColFare, ColFlightNumber}

WellFormedFlightRows ==
    {k \in 1..Len(flights_csv.rows) :
        /\ \A c \in FlightColumns : ~Blank(FlightCell(k, c))
        /\ ~Unparseable(FlightCell(k, ColFare))}

\* the members of a set of positions, in increasing order
InOrder(S) == [k \in 1..Cardinality(S) |-> Nth(S, k)]

(* C6: on a load that succeeds, the records' destinations are, in source   *)
(* order, the trimmed lowercased Destination that each named row has or    *)
(* inherits from the nearest row above with a non-blank one (blank:        *)
(* missing or whitespace only), and no record has an empty destination.    *)
C6_CarryForward ==
    pc # "load_hotels" /\ HotelTableOk /\ "hotels" \notin errors =>
        LET rows == InOrder({k \in NamedHotelRows : notna(CarriedDestination(k))})
        IN  /\ \A k \in 1..Len(hotels_data) : hotels_data[k].destination # <<>>
            /\ Len(hotels_data) = Len(rows)
            /\ \A k \in 1..Len(rows) :
                  hotels_data[k].destination = lower(strip(CarriedDestination(rows[k])))

(* C7: a row without a hotel name (missing, or empty once trimmed) yields  *)
(* no record and its rate is never parsed, and every row with a name and a *)
(* rate that parses yields exactly one record, in source order, under its  *)
(* trimmed name.                                                           *)
C7_OneRecordPerRetainedRow ==
    pc # "load_hotels" /\ HotelTableOk =>
        LET rows == InOrder({k \in NamedHotelRows : ~Unparseable(HotelCell(k, ColRate))})
        IN  /\ Len(hotels_data) = Len(rows)
            /\ \A k \in 1..Len(rows) :
                  /\ hotels_data[k].hotelName = strip(HotelCell(rows[k], ColHotelName))
                  /\ hotels_data[k].hotelName # <<>>

(* C9: when exactly one retained row of a table has a rate or fare that    *)
(* cannot be parsed, the load is not aborted and every well-formed row of  *)
(* that table still appears in the loaded collection.                      *)
C9_BadRowIsolated ==
    /\ pc # "load_hotels" /\ HotelTableOk
         /\ Cardinality({k \in NamedHotelRows : Unparseable(HotelCell(k, ColRate))}) = 1 =>
            /\ "hotels" \notin errors
            /\ \A k \in WellFormedHotelRows :
                  \E i \in 1..Len(hotels_data) :
                      /\ hotels_data[i].hotelName = strip(HotelCell(k, ColHotelName))
                      /\ hotels_data[i].destination = lower(strip(CarriedDestination(k)))
    /\ pc = "serving" /\ FlightTableOk
         /\ Cardinality({k \in 1..Len(flights_csv.rows) : Unparseable(FlightCell(k, ColFare))}) = 1 =>
            /\ "flights" \notin errors
            /\ \A k \in WellFormedFlightRows :
                  \E i \in 1..Len(flights_data) :
                      flights_data[i].flightNumber = strip(FlightCell(k, ColFlightNumber))

(* C10: a flight load that succeeds emits one record per source row, no    *)
(* record stands for a row that lacks a required field (such a row makes   *)
(* the load report a failure), and no record has an empty departure or     *)
(* arrival city.                                                           *)
C10_FlightRowsAllValid ==
    pc = "serving" /\ FlightTableOk /\ "flights" \notin errors =>
        /\ Len(flights_data) = Len(flights_csv.rows)
        /\ \A k \in 1..Len(flights_csv.rows) :
              \A c \in RequiredFlightColumns : notna(FlightCell(k, c))
        /\ \A i \in 1..Len(flights_data) :
              flights_data[i].departureCity # <<>> /\ flights_data[i].arrivalCity # <<>>

=============================================================================
